---- MODULE Spec2Model ----
(***************************************************************************)
(* Model of examples/run_oguk.py: the baseline-vs-reform driver of OG-UK.  *)
(* The driver is a straight-line program over external collaborators       *)
(* (distributed client, Specifications, Calibration, runner, pickle        *)
(* loader, table and plot helpers).  Every call of the driver is one       *)
(* action; every external call may either return or raise.                 *)
(***************************************************************************)
EXTENDS Integers, Sequences, FiniteSets, TLC

\* ---------------------------------------------------------------- bounds
\* largest value multiprocessing.cpu_count() is drawn from
MaxCpu == 8
\* number of distinct values a field of the default JSON file may take
NumJsonVals == 2
\* number of distinct estimates a calibration may return
NumEst == 2
\* number of distinct amounts a leaf of the policy tree may hold
NumAmounts == 2

\* ------------------------------------------------------- program constants
START_YEAR == 2018
WorkerCap == 7
ReformPeriod == 2018
ReformValue == 10000
TableYears == 10

\* ------------------------------------------------------------------ paths
\* a path is a sequence of components; os.path.join concatenates
Join(a, b) == a \o b

CUR_DIR == <<"examples">>
base_dir == Join(CUR_DIR, <<"OG-UK-Example", "OUTPUT_BASELINE">>)
reform_dir == Join(CUR_DIR, <<"OG-UK-Example", "OUTPUT_REFORM">>)
plot_dir == Join(CUR_DIR, <<"OG-UK_example_plots">>)
json_path == Join(CUR_DIR, <<"..", "oguk", "oguk_default_parameters.json">>)
csv_path == <<"oguk_example_output.csv">>

TpiPath(dir) == Join(dir, <<"TPI", "TPI_vars.pkl">>)
ParamsPath(dir) == Join(dir, <<"model_params.pkl">>)

\* ------------------------------------------------------------ mappings
\* a Python dict / the fields of a Specifications object: a function from
\* key to value; update_specifications overwrites the keys of the mapping
Empty == [k \in {} |-> 0]
IsUnset(m) == DOMAIN m = {}
Merge(spec, m) ==
  [k \in (DOMAIN spec) \cup (DOMAIN m) |-> IF k \in DOMAIN m THEN m[k] ELSE spec[k]]

Min(a, b) == IF a < b THEN a ELSE b

Runs == {"b", "r"}

\* keys of the five calibration-derived parameters
CalibKeys == {"etr_params", "mtrx_params", "mtry_params",
              "mean_income_data", "frac_tax_payroll"}
\* keys the default JSON file carries in the model
JsonKeys == {"frisch", "start_year", "etr_params"}

\* arguments of Specifications(...) for the baseline run
BaselineSpecArgs(nw) ==
  [baseline |-> TRUE, num_workers |-> nw,
   baseline_dir |-> base_dir, output_base |-> base_dir]

ReformSpecArgsSelfDir(nw) ==
  [baseline |-> FALSE, num_workers |-> nw,
   baseline_dir |-> reform_dir, output_base |-> reform_dir]
\* arguments of Specifications(...) for the reform run
ReformSpecArgs(nw) ==
  [baseline |-> FALSE, num_workers |-> nw,
   baseline_dir |-> base_dir, output_base |-> reform_dir]

SpecArgs(run, nw) == IF run = "b" THEN BaselineSpecArgs(nw) ELSE ReformSpecArgs(nw)

\* literal overrides of the baseline run (alpha values in units of 1e-3)
BaselineOverrides ==
  [tax_func_type |-> "DEP", age_specific |-> FALSE, start_year |-> START_YEAR,
   alpha_T |-> <<5>>, alpha_G |-> <<5>>]

ReformOverridesOtherForm ==
  [tax_func_type |-> "GS", age_specific |-> FALSE, start_year |-> START_YEAR,
   alpha_T |-> <<5>>, alpha_G |-> <<5>>]
\* literal overrides of the reform run
ReformOverrides ==
  [tax_func_type |-> "DEP", age_specific |-> FALSE, start_year |-> START_YEAR,
   alpha_T |-> <<5>>, alpha_G |-> <<5>>]

Overrides(run) == IF run = "b" THEN BaselineOverrides ELSE ReformOverrides

\* d["k"] for the five keys: a missing key raises KeyError
KeyErr == [error |-> "KeyError"]
ExtractParamsLenient(d) == [k \in CalibKeys \cap DOMAIN d |-> d[k]]
ExtractParams(d) ==
  IF CalibKeys \subseteq DOMAIN d THEN [k \in CalibKeys |-> d[k]] ELSE KeyErr

\* ---------------------------------------------------------- program order
\* the statements of main() in source order; main() has no branch and no loop
Order ==
  <<"client", "setup",
    "b_spec", "b_json", "b_over", "b_calib", "b_dict", "b_merge", "b_run",
    "r_reform",
    "r_spec", "r_json", "r_over", "r_calib", "r_dict", "r_merge", "r_run",
    "load", "table", "plots", "csv", "close">>

Steps == {Order[i] : i \in 1..Len(Order)}
IndexOf(step) == CHOOSE i \in 1..Len(Order) : Order[i] = step

SuccSkipBaselineRun(step) ==
  IF step = "b_merge" THEN "r_reform"
  ELSE IF IndexOf(step) = Len(Order) THEN "done" ELSE Order[IndexOf(step) + 1]
\* the statement control reaches when `step` returns normally
Succ(step) ==
  IF IndexOf(step) = Len(Order) THEN "done" ELSE Order[IndexOf(step) + 1]

RaisePcSkipToReform(step) == IF step = "b_run" THEN Succ(step) ELSE "failed"
\* where control goes when `step` raises: main() has no try/except/finally,
\* so the exception leaves main() and the process terminates
RaisePc(step) == "failed"

\* labels of the statements of one run
BL == [spec |-> "b_spec", json |-> "b_json", over |-> "b_over", calib |-> "b_calib",
       dict |-> "b_dict", merge |-> "b_merge", run |-> "b_run"]
RL == [spec |-> "r_spec", json |-> "r_json", over |-> "r_over", calib |-> "r_calib",
       dict |-> "r_dict", merge |-> "r_merge", run |-> "r_run"]
Lbl(run) == IF run = "b" THEN BL ELSE RL

UpdateTargetMergeIntoP(step) ==
  IF step \in {"b_spec", "b_json", "b_over", "b_merge", "r_merge"} THEN "b" ELSE "r"
\* the Specifications object an update statement is called on (p or p2)
UpdateTarget(step) ==
  IF step \in {"b_spec", "b_json", "b_over", "b_merge"} THEN "b" ELSE "r"

\* the Specifications object handed to runner(...) by a run statement
RunnerArg(step) == IF step = "b_run" THEN "b" ELSE "r"

\* phases of the driver
PhaseOrder == <<"Setup", "BaselineCalibrate", "BaselineRun", "ReformCalibrate",
                "ReformRun", "Report", "Teardown">>
PhaseOf(step) ==
  CASE step \in {"client", "setup"} -> "Setup"
    [] step \in {"b_spec", "b_json", "b_over", "b_calib", "b_dict", "b_merge"}
         -> "BaselineCalibrate"
    [] step = "b_run" -> "BaselineRun"
    [] step \in {"r_reform", "r_spec", "r_json", "r_over", "r_calib", "r_dict", "r_merge"}
         -> "ReformCalibrate"
    [] step = "r_run" -> "ReformRun"
    [] step \in {"load", "table", "plots", "csv"} -> "Report"
    [] step = "close" -> "Teardown"

\* ------------------------------------------------------------ script entry
\* names bound at module level when line 181 executes
ModuleNames == {"multiprocessing", "Client", "json", "time", "os", "Reform",
                "Calibration", "ot", "op", "runner", "safe_read_pickle",
                "START_YEAR", "Specifications", "main"}
\* number of parameters main() declares
MainArity == 0
\* reform objects a command line may name as module.object
CliReforms == {"small_ubi_reform.ubi_reform", "my_reform.reform"}

\* outcome of the `if __name__ == "__main__":` block for argument arg
ScriptOutcome(arg) ==
  IF "ArgumentParser" \notin ModuleNames THEN "NameError"
  ELSE IF MainArity # 1 THEN "TypeError"
  ELSE "ok"

\* -------------------------------------------------------------- file store
ArtifactPaths == {TpiPath(base_dir), ParamsPath(base_dir),
                  TpiPath(reform_dir), ParamsPath(reform_dir)}
Absent == [by |-> "absent", start_year |-> 0]
Stale == [by |-> "stale", start_year |-> START_YEAR]

\* files the runner leaves under the output directory of the spec it is given
RunnerWrites(spec, run) ==
  [q \in {TpiPath(spec.output_base), ParamsPath(spec.output_base)} |->
     [by |-> run, start_year |-> spec.start_year]]

LoadPathsBaselineTwice ==
  [base_tpi |-> TpiPath(base_dir), base_params |-> ParamsPath(base_dir),
   reform_tpi |-> TpiPath(base_dir), reform_params |-> ParamsPath(base_dir)]
\* the four paths handed to safe_read_pickle
LoadPaths ==
  [base_tpi |-> TpiPath(base_dir), base_params |-> ParamsPath(base_dir),
   reform_tpi |-> TpiPath(reform_dir), reform_params |-> ParamsPath(reform_dir)]

\* ------------------------------------------------------------------ state
VARIABLES
  pc,          \* statement about to execute, or "entry" / "done" / "failed"
  entry,       \* how the file was entered: "none", "script", "call"
  cliArg,      \* the positional argument `reform` of a script invocation
  client,      \* distributed client: "none", "open", "closed"
  closeCount,  \* number of client.close() calls made
  num_workers, \* local num_workers (0 before it is bound)
  specs,       \* fields of p (specs.b) and p2 (specs.r)
  jsonFile,    \* contents of oguk_default_parameters.json
  calib,       \* result mapping of c.get_dict() / c2.get_dict()
  updated,     \* updated_params / updated_params2
  handed,      \* fields of the specification at the moment runner received it
  reformLocal, \* local name `reform` of main()
  reformUsed,  \* iit_reform received by each Calibration call
  fs,          \* contents of the result files
  loaded,      \* the four unpickled artifacts
  ans,         \* the macro table
  outputs,     \* plots and CSV produced
  log,         \* statements executed so far, in order
  failedAt,    \* statement that raised, or "none"
  tree,        \* a policy-parameter tree
  applied      \* result of applying the reform to tree

mainVars == <<pc, entry, cliArg, client, closeCount, num_workers, specs, jsonFile,
              calib, updated, handed, reformLocal, reformUsed, fs, loaded, ans,
              outputs, log, failedAt>>
treeVars == <<tree, applied>>
vars == <<mainVars, treeVars>>

\* ------------------------------------------------------- policy-parameter tree
\* a tree maps each leaf to its dated amounts
Leaves == {"personal_allowance", "basic_rate"}
Periods == {2017, 2018, 2019}
Amounts == 1..NumAmounts
Trees == [Leaves -> [Periods -> Amounts]]

\* Parameter.update(period=..., value=...) on one leaf: the amount of the
\* period becomes value and earlier periods keep theirs; whether later
\* periods keep the new amount or the old one is the library's choice (open)
ParamUpdate(dated, period, value, open) ==
  [q \in DOMAIN dated |->
     IF q = period THEN value
     ELSE IF q > period /\ open THEN value
     ELSE dated[q]]

lower_pa_all_leaves(parameters, open) ==
  [params |-> [l \in DOMAIN parameters |->
                 ParamUpdate(parameters[l], ReformPeriod, ReformValue, open)],
   returned |-> "parameters"]
\* lower_pa: update the personal allowance and return the tree it was given
lower_pa(parameters, open) ==
  [params |-> [parameters EXCEPT !["personal_allowance"] =
                 ParamUpdate(@, ReformPeriod, ReformValue, open)],
   returned |-> "parameters"]

\* -------------------------------------------------------------------- Init
NoSpecs == [r \in Runs |-> Empty]
DefaultTree == [l \in Leaves |-> [q \in Periods |-> 1]]
NotApplied == [params |-> DefaultTree, returned |-> "none"]

InitMain ==
  /\ pc = "entry"
  /\ entry = "none"
  /\ cliArg = "none"
  /\ client = "none"
  /\ closeCount = 0
  /\ num_workers = 0
  /\ specs = NoSpecs
  /\ jsonFile \in [JsonKeys -> 1..NumJsonVals]
  /\ calib = NoSpecs
  /\ updated = NoSpecs
  /\ handed = NoSpecs
  /\ reformLocal = "unbound"
  /\ reformUsed = [r \in Runs |-> "uncalled"]
  /\ fs \in {[q \in ArtifactPaths |-> Absent], [q \in ArtifactPaths |-> Stale]}
  /\ loaded = Empty
  /\ ans = Empty
  /\ outputs = {}
  /\ log = <<>>
  /\ failedAt = "none"

Init ==
  /\ InitMain
  /\ tree = DefaultTree
  /\ applied = NotApplied

\* ----------------------------------------------------------------- control
Return(step) ==
  /\ pc' = Succ(step)
  /\ log' = Append(log, step)
  /\ failedAt' = failedAt

Raise(step) ==
  /\ pc' = RaisePc(step)
  /\ log' = Append(log, step)
  /\ failedAt' = step

\* ------------------------------------------------------------------ entry
\* python run_oguk.py <reform>: the __main__ block
ScriptEntry ==
  /\ pc = "entry"
  /\ \E arg \in CliReforms :
       /\ cliArg' = arg
       /\ entry' = "script"
       /\ IF ScriptOutcome(arg) = "ok"
            THEN pc' = "client" /\ failedAt' = failedAt
            ELSE pc' = "failed" /\ failedAt' = "script"
  /\ UNCHANGED <<client, closeCount, num_workers, specs, jsonFile, calib, updated,
                 handed, reformLocal, reformUsed, fs, loaded, ans, outputs, log>>
  /\ UNCHANGED treeVars

\* import run_oguk; run_oguk.main()
CallMain ==
  /\ pc = "entry"
  /\ entry' = "call"
  /\ pc' = "client"
  /\ UNCHANGED <<cliArg, client, closeCount, num_workers, specs, jsonFile, calib,
                 updated, handed, reformLocal, reformUsed, fs, loaded, ans, outputs,
                 log, failedAt>>
  /\ UNCHANGED treeVars

\* ------------------------------------------------------------------ setup
\* client = Client()
CreateClient ==
  /\ pc = "client"
  /\ \/ Return("client") /\ client' = "open"
     \/ Raise("client") /\ client' = client
  /\ UNCHANGED <<entry, cliArg, closeCount, num_workers, specs, jsonFile, calib,
                 updated, handed, reformLocal, reformUsed, fs, loaded, ans, outputs>>
  /\ UNCHANGED treeVars

\* num_workers = min(cpu_count(), 7); base_dir, reform_dir
Setup ==
  /\ pc = "setup"
  /\ \E cpus \in 1..MaxCpu : num_workers' = Min(cpus, WorkerCap)
  /\ Return("setup")
  /\ UNCHANGED <<entry, cliArg, client, closeCount, specs, jsonFile, calib, updated,
                 handed, reformLocal, reformUsed, fs, loaded, ans, outputs>>
  /\ UNCHANGED treeVars

\* ------------------------------------------------ one run (baseline / reform)
\* p = Specifications(...) / p2 = Specifications(...)
BuildSpec(run) ==
  /\ pc = Lbl(run).spec
  /\ \/ /\ Return(Lbl(run).spec)
        /\ specs' = [specs EXCEPT ![UpdateTarget(Lbl(run).spec)] = SpecArgs(run, num_workers)]
     \/ Raise(Lbl(run).spec) /\ specs' = specs
  /\ UNCHANGED <<entry, cliArg, client, closeCount, num_workers, jsonFile, calib,
                 updated, handed, reformLocal, reformUsed, fs, loaded, ans, outputs>>
  /\ UNCHANGED treeVars

\* update_specifications(json.load(open(...)))
LoadDefaults(run) ==
  /\ pc = Lbl(run).json
  /\ \/ /\ Return(Lbl(run).json)
        /\ specs' = [specs EXCEPT ![UpdateTarget(Lbl(run).json)] = Merge(@, jsonFile)]
     \/ Raise(Lbl(run).json) /\ specs' = specs
  /\ UNCHANGED <<entry, cliArg, client, closeCount, num_workers, jsonFile, calib,
                 updated, handed, reformLocal, reformUsed, fs, loaded, ans, outputs>>
  /\ UNCHANGED treeVars

\* update_specifications({"tax_func_type": "DEP", ...})
ApplyOverrides(run) ==
  /\ pc = Lbl(run).over
  /\ \/ /\ Return(Lbl(run).over)
        /\ specs' = [specs EXCEPT ![UpdateTarget(Lbl(run).over)] = Merge(@, Overrides(run))]
     \/ Raise(Lbl(run).over) /\ specs' = specs
  /\ UNCHANGED <<entry, cliArg, client, closeCount, num_workers, jsonFile, calib,
                 updated, handed, reformLocal, reformUsed, fs, loaded, ans, outputs>>
  /\ UNCHANGED treeVars

\* c = Calibration(p, ...) / c2 = Calibration(p2, iit_reform=reform, ...)
Calibrate(run) ==
  /\ pc = Lbl(run).calib
  /\ reformUsed' = [reformUsed EXCEPT ![run] = IF run = "b" THEN "None" ELSE reformLocal]
  /\ \/ /\ Return(Lbl(run).calib)
        /\ \E keys \in SUBSET CalibKeys, est \in 1..NumEst :
             calib' = [calib EXCEPT ![run] = [k \in keys |-> est]]
     \/ Raise(Lbl(run).calib) /\ calib' = calib
  /\ UNCHANGED <<entry, cliArg, client, closeCount, num_workers, specs, jsonFile,
                 updated, handed, reformLocal, fs, loaded, ans, outputs>>
  /\ UNCHANGED treeVars

\* d = c.get_dict(); updated_params = {"etr_params": d["etr_params"], ...}
GetDict(run) ==
  /\ pc = Lbl(run).dict
  /\ LET r == ExtractParams(calib[run]) IN
       IF "error" \in DOMAIN r
         THEN Raise(Lbl(run).dict) /\ updated' = updated
         ELSE Return(Lbl(run).dict) /\ updated' = [updated EXCEPT ![run] = r]
  /\ UNCHANGED <<entry, cliArg, client, closeCount, num_workers, specs, jsonFile,
                 calib, handed, reformLocal, reformUsed, fs, loaded, ans, outputs>>
  /\ UNCHANGED treeVars

\* p.update_specifications(updated_params)
MergeCalib(run) ==
  /\ pc = Lbl(run).merge
  /\ \/ /\ Return(Lbl(run).merge)
        /\ specs' = [specs EXCEPT ![UpdateTarget(Lbl(run).merge)] = Merge(@, updated[run])]
     \/ Raise(Lbl(run).merge) /\ specs' = specs
  /\ UNCHANGED <<entry, cliArg, client, closeCount, num_workers, jsonFile, calib,
                 updated, handed, reformLocal, reformUsed, fs, loaded, ans, outputs>>
  /\ UNCHANGED treeVars

\* runner(p, time_path=True, client=client)
RunModel(run) ==
  /\ pc = Lbl(run).run
  /\ LET given == specs[RunnerArg(Lbl(run).run)] IN
       /\ handed' = [handed EXCEPT ![run] = given]
       /\ \/ /\ Return(Lbl(run).run)
             /\ fs' = Merge(fs, RunnerWrites(given, run))
          \/ Raise(Lbl(run).run) /\ fs' = fs
  /\ UNCHANGED <<entry, cliArg, client, closeCount, num_workers, specs, jsonFile,
                 calib, updated, reformLocal, reformUsed, loaded, ans, outputs>>
  /\ UNCHANGED treeVars

\* def lower_pa ...; class lower_personal_tax_allowance(Reform); reform = ...
DefineReform ==
  /\ pc = "r_reform"
  /\ reformLocal' = "lower_personal_tax_allowance"
  /\ Return("r_reform")
  /\ UNCHANGED <<entry, cliArg, client, closeCount, num_workers, specs, jsonFile,
                 calib, updated, handed, reformUsed, fs, loaded, ans, outputs>>
  /\ UNCHANGED treeVars

\* ----------------------------------------------------------------- report
\* the four safe_read_pickle calls
LoadResults ==
  /\ pc = "load"
  /\ \/ /\ \A k \in DOMAIN LoadPaths : fs[LoadPaths[k]].by # "absent"
        /\ Return("load")
        /\ loaded' = [k \in DOMAIN LoadPaths |-> fs[LoadPaths[k]]]
     \/ Raise("load") /\ loaded' = loaded
  /\ UNCHANGED <<entry, cliArg, client, closeCount, num_workers, specs, jsonFile,
                 calib, updated, handed, reformLocal, reformUsed, fs, ans, outputs>>
  /\ UNCHANGED treeVars

\* ans = ot.macro_table(...)
MacroTable ==
  /\ pc = "table"
  /\ \/ /\ Return("table")
        /\ ans' = [base_tpi |-> loaded.base_tpi.by,
                   base_params |-> loaded.base_params.by,
                   reform_tpi |-> loaded.reform_tpi.by,
                   reform_params |-> loaded.reform_params.by,
                   output_type |-> "pct_diff",
                   num_years |-> TableYears,
                   start_year |-> loaded.base_params.start_year]
     \/ Raise("table") /\ ans' = ans
  /\ UNCHANGED <<entry, cliArg, client, closeCount, num_workers, specs, jsonFile,
                 calib, updated, handed, reformLocal, reformUsed, fs, loaded, outputs>>
  /\ UNCHANGED treeVars

\* op.plot_all(base_dir, reform_dir, plots directory)
PlotAll ==
  /\ pc = "plots"
  /\ \/ Return("plots") /\ outputs' = outputs \cup {plot_dir}
     \/ Raise("plots") /\ outputs' = outputs
  /\ UNCHANGED <<entry, cliArg, client, closeCount, num_workers, specs, jsonFile,
                 calib, updated, handed, reformLocal, reformUsed, fs, loaded, ans>>
  /\ UNCHANGED treeVars

\* print(...); ans.to_csv("oguk_example_output.csv")
WriteCsv ==
  /\ pc = "csv"
  /\ \/ Return("csv") /\ outputs' = outputs \cup {csv_path}
     \/ Raise("csv") /\ outputs' = outputs
  /\ UNCHANGED <<entry, cliArg, client, closeCount, num_workers, specs, jsonFile,
                 calib, updated, handed, reformLocal, reformUsed, fs, loaded, ans>>
  /\ UNCHANGED treeVars

\* client.close()
CloseClient ==
  /\ pc = "close"
  /\ closeCount' = closeCount + 1
  /\ \/ Return("close") /\ client' = "closed"
     \/ Raise("close") /\ client' = client
  /\ UNCHANGED <<entry, cliArg, num_workers, specs, jsonFile, calib, updated,
                 handed, reformLocal, reformUsed, fs, loaded, ans, outputs>>
  /\ UNCHANGED treeVars

Next ==
  \/ ScriptEntry
  \/ CallMain
  \/ CreateClient
  \/ Setup
  \/ \E run \in Runs : BuildSpec(run)
  \/ \E run \in Runs : LoadDefaults(run)
  \/ \E run \in Runs : ApplyOverrides(run)
  \/ \E run \in Runs : Calibrate(run)
  \/ \E run \in Runs : GetDict(run)
  \/ \E run \in Runs : MergeCalib(run)
  \/ \E run \in Runs : RunModel(run)
  \/ DefineReform
  \/ LoadResults
  \/ MacroTable
  \/ PlotAll
  \/ WriteCsv
  \/ CloseClient

Spec == Init /\ [][Next]_vars

\* ------------------------------------------- the reform transformation alone
\* lower_personal_tax_allowance.apply: modify_parameters(modifier_function=lower_pa)
ApplyReform ==
  /\ applied.returned = "none"
  /\ \E open \in BOOLEAN : applied' = lower_pa(tree, open)
  /\ UNCHANGED tree
  /\ UNCHANGED mainVars

InitReform ==
  /\ tree \in Trees
  /\ applied = NotApplied
  /\ pc = "entry"
  /\ entry = "none"
  /\ cliArg = "none"
  /\ client = "none"
  /\ closeCount = 0
  /\ num_workers = 0
  /\ specs = NoSpecs
  /\ jsonFile = [k \in JsonKeys |-> 1]
  /\ calib = NoSpecs
  /\ updated = NoSpecs
  /\ handed = NoSpecs
  /\ reformLocal = "lower_personal_tax_allowance"
  /\ reformUsed = [r \in Runs |-> "uncalled"]
  /\ fs = [q \in ArtifactPaths |-> Absent]
  /\ loaded = Empty
  /\ ans = Empty
  /\ outputs = {}
  /\ log = <<>>
  /\ failedAt = "none"

NextReform == ApplyReform

SpecReform == InitReform /\ [][NextReform]_vars

\* ================================================================ properties
Terminal == pc \in {"done", "failed"}
Occurs(step) == \E i \in 1..Len(log) : log[i] = step
Pos(step) == CHOOSE i \in 1..Len(log) : log[i] = step
Times(step) == Cardinality({i \in 1..Len(log) : log[i] = step})
Returned(step) == Occurs(step) /\ failedAt # step
IsPrefix(s, t) == Len(s) <= Len(t) /\ \A i \in 1..Len(s) : s[i] = t[i]

RECURSIVE PhaseTrace(_)
\* the phases a sequence of statements passes through, in order of entry
PhaseTrace(l) ==
  IF l = <<>> THEN <<>>
  ELSE LET front == PhaseTrace(SubSeq(l, 1, Len(l) - 1))
           ph == PhaseOf(l[Len(l)])
       IN IF front # <<>> /\ front[Len(front)] = ph THEN front ELSE Append(front, ph)

\* C1: in every terminal state of main() in which the client was created, the
\* client has been closed, and closed exactly once.
C1_ClientReleasedOnEveryExit ==
  (Terminal /\ client # "none") => (client = "closed" /\ closeCount = 1)

AllowedDiff == {"baseline", "output_base"} \cup CalibKeys
DriverFields ==
  {"num_workers", "baseline_dir"} \cup JsonKeys \cup DOMAIN BaselineOverrides

\* C2: once both specifications have been handed to the runner, every field
\* other than baseline, output_base and the five calibration-derived
\* parameters is present in both and has the same value in both.
C2_SpecsDifferOnlyInAllowedFields ==
  (~IsUnset(handed.b) /\ ~IsUnset(handed.r)) =>
    /\ DriverFields \subseteq DOMAIN handed.b
    /\ \A k \in ((DOMAIN handed.b) \cup (DOMAIN handed.r)) \ AllowedDiff :
         /\ k \in DOMAIN handed.b
         /\ k \in DOMAIN handed.r
         /\ handed.b[k] = handed.r[k]

C2_Witness ==
  /\ pc = "load"
  /\ ~IsUnset(handed.b) /\ ~IsUnset(handed.r)
  /\ handed.b.etr_params # handed.r.etr_params
  /\ handed.b.num_workers = WorkerCap

\* C3: when a calibration returned a mapping that lacks one of the five keys,
\* the driver fails at the extraction statement of that run: nothing is
\* merged and the runner of that run is never called; and a specification
\* that reaches the runner carries all five values of its calibration.
C3_MissingKeyFailsBeforeMerge ==
  \A run \in Runs :
    /\ (Returned(Lbl(run).calib) /\ ~(CalibKeys \subseteq DOMAIN calib[run])) =>
         /\ pc \in {Lbl(run).dict, "failed"}
         /\ pc = "failed" => failedAt = Lbl(run).dict
         /\ ~Occurs(Lbl(run).merge)
         /\ ~Occurs(Lbl(run).run)
         /\ IsUnset(handed[run])
    /\ ~IsUnset(handed[run]) =>
         \A k \in CalibKeys : k \in DOMAIN handed[run] /\ handed[run][k] = calib[run][k]

C3_Witness ==
  /\ pc = "failed"
  /\ failedAt = "r_dict"
  /\ "etr_params" \notin DOMAIN calib.r
  /\ "mtrx_params" \in DOMAIN calib.r

\* C4: a script invocation with a module.object argument does not fail in the
\* entry block, and the reform calibration receives the object the argument
\* names.
C4_ScriptRunsCliReform ==
  (entry = "script" /\ Terminal) =>
    /\ failedAt # "script"
    /\ reformUsed.r # "uncalled" => reformUsed.r = cliArg

C6_PhasesInLinearOrder ==
  /\ IsPrefix(log, Order)
  /\ IsPrefix(PhaseTrace(log), PhaseOrder)
  /\ pc \in Steps => log \o <<pc>> = SubSeq(Order, 1, Len(log) + 1)
  /\ pc = "done" => (log = Order /\ PhaseTrace(log) = PhaseOrder)

C6_Witness == pc = "done" /\ PhaseTrace(log) = PhaseOrder /\ failedAt = "none"

FailSteps == {"b_calib", "r_calib", "b_run", "r_run", "load"}

\* C7: when a calibration, a runner call or the result loading raises, the
\* driver is in the failure state with the raising statement as the last one
\* executed and executed once, nothing further can run, no CSV has been
\* written and the client is open and has never been closed; after a failed
\* baseline run the reform calibration and the reform run were never called.
C7_FailurePropagatesClientLeftOpen ==
  /\ failedAt \in FailSteps =>
       /\ pc = "failed"
       /\ log[Len(log)] = failedAt
       /\ Times(failedAt) = 1
       /\ client = "open"
       /\ closeCount = 0
       /\ csv_path \notin outputs
       /\ failedAt = "b_run" =>
            (reformUsed.r = "uncalled" /\ IsUnset(handed.r) /\ IsUnset(specs.r))
  /\ pc = "failed" => ~ENABLED Next

C7_Witness ==
  /\ pc = "failed"
  /\ failedAt = "b_run"
  /\ ~IsUnset(handed.b)
  /\ client = "open"

\* C8: the baseline specification has baseline = TRUE and baseline_dir =
\* output_base = base_dir; the reform specification has baseline = FALSE,
\* output_base = reform_dir and baseline_dir = base_dir, which is the output
\* directory of the baseline specification and not its own.
C8_BaselineAndReformDirectories ==
  /\ ~IsUnset(specs.b) =>
       /\ specs.b.baseline = TRUE
       /\ specs.b.output_base = base_dir
       /\ specs.b.baseline_dir = specs.b.output_base
  /\ ~IsUnset(specs.r) =>
       /\ specs.r.baseline = FALSE
       /\ specs.r.output_base = reform_dir
       /\ specs.r.baseline_dir = base_dir
       /\ specs.r.baseline_dir = specs.b.output_base
       /\ specs.r.baseline_dir # specs.r.output_base

C8_Witness ==
  /\ pc = "r_json"
  /\ ~IsUnset(specs.r)
  /\ ~IsUnset(handed.b)
  /\ handed.b.output_base = specs.r.baseline_dir

\* C9: a specification handed to the runner is never changed afterwards by
\* the driver, and in each run the merge of the calibration results comes
\* after the calibration call and before the runner call.
C9_NoUpdateAfterHandOff ==
  \A run \in Runs :
    /\ ~IsUnset(handed[run]) => specs[run] = handed[run]
    /\ Occurs(Lbl(run).merge) =>
         (Returned(Lbl(run).calib) /\ Pos(Lbl(run).calib) < Pos(Lbl(run).merge))
    /\ Occurs(Lbl(run).run) =>
         (Returned(Lbl(run).merge) /\ Pos(Lbl(run).merge) < Pos(Lbl(run).run))

C9_Witness ==
  /\ pc = "done"
  /\ specs.b = handed.b
  /\ specs.r = handed.r
  /\ specs.b.mtrx_params # specs.r.mtrx_params

\* C10: the artifacts loaded for the report are the files the two runner
\* calls of this invocation wrote: the paths read lie under the output_base
\* of the specification each runner received, both runner calls returned
\* before the first read, and the two output directories differ.
C10_ReportReadsWhatRunsWrote ==
  /\ ~IsUnset(loaded) =>
       /\ loaded.base_tpi.by = "b" /\ loaded.base_params.by = "b"
       /\ loaded.reform_tpi.by = "r" /\ loaded.reform_params.by = "r"
       /\ LoadPaths.base_tpi = TpiPath(handed.b.output_base)
       /\ LoadPaths.base_params = ParamsPath(handed.b.output_base)
       /\ LoadPaths.reform_tpi = TpiPath(handed.r.output_base)
       /\ LoadPaths.reform_params = ParamsPath(handed.r.output_base)
       /\ handed.b.output_base # handed.r.output_base
       /\ Returned("b_run") /\ Returned("r_run")
       /\ Pos("b_run") < Pos("r_run") /\ Pos("r_run") < Pos("load")
  /\ ~IsUnset(ans) =>
       /\ ans.base_tpi = "b" /\ ans.base_params = "b"
       /\ ans.reform_tpi = "r" /\ ans.reform_params = "r"
       /\ ans.start_year = handed.b.start_year

C10_Witness ==
  /\ pc = "plots"
  /\ ~IsUnset(ans)
  /\ ans.base_tpi = "b"
  /\ ans.reform_tpi = "r"

====
